---- MODULE Spec2Model ----
(***************************************************************************)
(* Model of the SWORDS collect_variables scripts:                          *)
(*   howfairis_api/howfairis_variables.py  (parse_repo and its batch loop) *)
(*   parse_readme/readme_content.py        (get_readme_content and         *)
(*                                          process_csv_file)              *)
(* Strings are sequences of one-character strings, so that prefix tests,   *)
(* substring tests, percent-decoding and splitting are computed.           *)
(***************************************************************************)
EXTENDS Integers, Sequences, FiniteSets, TLC

\* ------------------------------------------------------------------------
\* Bounds of the model
\* ------------------------------------------------------------------------
MaxRows == 2
MaxAttempts == 3

\* ------------------------------------------------------------------------
\* Generic string helpers (Python str semantics on character sequences)
\* ------------------------------------------------------------------------
\* s.startswith(p)
StartsWith(s, p) ==
    /\ Len(s) >= Len(p)
    /\ SubSeq(s, 1, Len(p)) = p

\* p in s
Contains(s, p) ==
    \E i \in 1..(Len(s) - Len(p) + 1) : SubSeq(s, i, i + Len(p) - 1) = p

RECURSIVE Concat(_)
Concat(ss) == IF ss = <<>> THEN <<>> ELSE Head(ss) \o Concat(Tail(ss))

\* ------------------------------------------------------------------------
\* String literals of the source
\* ------------------------------------------------------------------------
S_https == <<"h","t","t","p","s",":","/","/">>
S_http == <<"h","t","t","p",":","/","/">>
S_github_com == <<"g","i","t","h","u","b",".","c","o","m">>
S_gitlab_com == <<"g","i","t","l","a","b",".","c","o","m">>
S_example_org == <<"e","x","a","m","p","l","e",".","o","r","g">>

\* "Something went wrong asking the repo for its default branch", kept as one
\* symbol of the message alphabet; a message is a sequence of such symbols.
M_DefaultBranch == "Something went wrong asking the repo for its default branch"
M_TimeoutError == "TimeoutError"
M_Other == "Bad credentials"

\* the str(error) values the compliance check can raise
ErrorMessages ==
    { <<M_DefaultBranch>>, <<M_TimeoutError>>, <<M_Other>>,
      <<M_Other, M_TimeoutError>>, <<M_TimeoutError, M_DefaultBranch>> }

\* ------------------------------------------------------------------------
\* Sentinels
\* ------------------------------------------------------------------------
\* Python None, told apart from every string and every list
None == << "None" >>

Max(a, b) == IF a >= b THEN a ELSE b

\* ------------------------------------------------------------------------
\* Inputs the environment can produce
\* ------------------------------------------------------------------------
\* rows of the html_url column used by the batch loops
U_github_a_b == S_https \o S_github_com \o <<"/","a","/","b">>
U_gitlab_a_b == S_https \o S_gitlab_com \o <<"/","a","/","b">>
U_example_a_b == S_https \o S_example_org \o <<"/","a","/","b">>
U_github_a == S_https \o S_github_com \o <<"/","a">>
RowUrls == { U_github_a_b, U_gitlab_a_b, U_example_a_b, U_github_a }

\* the five howfairis flags (repository, license, registry, citation, checklist)
Compliances ==
    { <<TRUE, TRUE, TRUE, TRUE, TRUE>>, <<TRUE, FALSE, FALSE, FALSE, FALSE>> }

\* answers of the rate-limit endpoint and readings of time.time()
Remainings == {0, 1}
ResetTimes == {4, 10, 14}
Times == {10}

\* ------------------------------------------------------------------------
\* State
\* ------------------------------------------------------------------------
VARIABLES
    program,              \* which script runs: "howfairis" or "readme"
    rows,                 \* the html_url column of the input file
    counter,              \* zero-based index of the row being processed
    pc,                   \* position of the script
    result,               \* value returned by parse_repo / get_readme_content
    howfairis_variables,  \* the result list of the compliance script
    error,                \* str(error) of the exception being handled
    quota,                \* last quota reading: endpoint answer or headers
    clock,                \* last reading of time.time()
    sleepArg,             \* argument of the last time.sleep call
    progress,             \* progress messages printed: <<counter, total>>
    trace,                \* external calls made for the current row, in order
    attempts,             \* fetch attempts made for the current row
    overflow,             \* attempts went past MaxAttempts; trace is dropped
    outcomes,             \* value returned for each row processed so far
    step,                 \* name of the last step taken
    addr,                 \* << owner, repo >> of the row being fetched
    contents,             \* directory listing returned for the row
    idx,                  \* position of the scan in contents
    readme                \* the readme column written so far

vars == << program, rows, counter, pc, result, howfairis_variables, error,
           quota, clock, sleepArg, progress, trace, attempts, overflow,
           outcomes, step, addr, contents, idx, readme >>

readmeVars == << addr, contents, idx, readme >>

NoQuota == [status |-> "none", remaining |-> 0, reset |-> 0]

\* events of the trace
Fetch(msg) == [op |-> "fetch", secs |-> 0, msg |-> msg]
Sleep(secs) == [op |-> "sleep", secs |-> secs, msg |-> <<>>]
RateLimitQuery == [op |-> "rate_limit", secs |-> 0, msg |-> <<>>]

\* the trace is recorded for the first MaxAttempts attempts of a row and
\* dropped afterwards
Record(frozen, evs) == IF frozen THEN <<>> ELSE trace \o evs

RowSeqs == UNION { [1..n -> RowUrls] : n \in 1..MaxRows }

Init ==
    /\ program \in {"howfairis", "readme"}
    /\ rows \in RowSeqs
    /\ counter = 0
    /\ pc = "for"
    /\ result = None
    /\ howfairis_variables = <<>>
    /\ error = <<>>
    /\ quota = NoQuota
    /\ clock = 0
    /\ sleepArg = 0
    /\ progress = <<>>
    /\ trace = <<>>
    /\ attempts = 0
    /\ overflow = FALSE
    /\ outcomes = <<>>
    /\ step = "Init"
    /\ addr = None
    /\ contents = <<>>
    /\ idx = 0
    /\ readme = <<>>

\* ------------------------------------------------------------------------
\* howfairis_variables.py
\* ------------------------------------------------------------------------
supported_domains == << S_github_com, S_gitlab_com >>

is_supported_repo(url) ==
    \E i \in 1..Len(supported_domains) : Contains(url, supported_domains[i])

PacingDelay == 1
TimeoutDelay == 5
RateLimitMargin == 2

\* the except block with the "TimeoutError" test placed first
Classify_TimeoutFirst(msg) ==
    IF Contains(msg, <<M_TimeoutError>>) THEN "timeout"
    ELSE IF Contains(msg, <<M_DefaultBranch>>) THEN "skip"
    ELSE "rate_limit"

\* the except block without the "TimeoutError" branch
Classify_NoTimeoutBranch(msg) ==
    IF Contains(msg, <<M_DefaultBranch>>) THEN "skip" ELSE "rate_limit"

\* which branch of the except block of parse_repo handles str(error)
Classify(msg) ==
    IF Contains(msg, <<M_DefaultBranch>>) THEN "skip"
    ELSE IF Contains(msg, <<M_TimeoutError>>) THEN "timeout"
    ELSE "rate_limit"

\* a row is finished: what was called, raised and slept for it is forgotten
RowDone ==
    /\ trace' = <<>> /\ attempts' = 0 /\ overflow' = FALSE
    /\ error' = <<>> /\ quota' = NoQuota /\ clock' = 0 /\ sleepArg' = 0

\* parse_repo, unsupported URL: returns None before the retry loop
ParseRepoUnsupported ==
    /\ program = "howfairis" /\ pc = "for"
    /\ counter < Len(rows)
    /\ ~is_supported_repo(rows[counter + 1])
    /\ result' = None
    /\ pc' = "body"
    /\ UNCHANGED << trace, attempts, overflow, error, quota, clock, sleepArg >>
    /\ step' = "ParseRepoUnsupported"
    /\ UNCHANGED readmeVars
    /\ UNCHANGED << program, rows, counter, howfairis_variables, progress,
                    outcomes >>

\* parse_repo, supported URL: enters the retry loop
ParseRepoEnter ==
    /\ program = "howfairis" /\ pc = "for"
    /\ counter < Len(rows)
    /\ is_supported_repo(rows[counter + 1])
    /\ pc' = "try"
    /\ UNCHANGED << trace, attempts, overflow, error, quota, clock, sleepArg >>
    /\ step' = "ParseRepoEnter"
    /\ UNCHANGED readmeVars
    /\ UNCHANGED << program, rows, counter, result, howfairis_variables,
                    progress, outcomes >>

\* try block, get_howfairis_compliance returns the five flags
TrySuccess ==
    /\ program = "howfairis" /\ pc = "try"
    /\ \E compliance \in Compliances :
         result' = <<rows[counter + 1]>> \o compliance
    /\ LET frozen == overflow \/ attempts >= MaxAttempts IN
         /\ overflow' = frozen
         /\ attempts' = IF frozen THEN attempts ELSE attempts + 1
         /\ trace' = Record(frozen, << Fetch(<<>>), Sleep(PacingDelay) >>)
    /\ sleepArg' = PacingDelay
    /\ pc' = "body"
    /\ step' = "TrySuccess"
    /\ UNCHANGED readmeVars
    /\ UNCHANGED << program, rows, counter, howfairis_variables, error, quota,
                    clock, progress, outcomes >>

\* try block, get_howfairis_compliance raises
TryRaise ==
    /\ program = "howfairis" /\ pc = "try"
    /\ \E msg \in ErrorMessages :
         /\ error' = msg
         /\ LET frozen == overflow \/ attempts >= MaxAttempts IN
              /\ overflow' = frozen
              /\ attempts' = IF frozen THEN attempts ELSE attempts + 1
              /\ trace' = Record(frozen, << Fetch(msg) >>)
    /\ pc' = "except"
    /\ step' = "TryRaise"
    /\ UNCHANGED readmeVars
    /\ UNCHANGED << program, rows, counter, result, howfairis_variables, quota,
                    clock, sleepArg, progress, outcomes >>

\* except block, default-branch message: skip the repository
ExceptSkip ==
    /\ program = "howfairis" /\ pc = "except"
    /\ Classify(error) = "skip"
    /\ result' = None
    /\ pc' = "body"
    /\ step' = "ExceptSkip"
    /\ UNCHANGED readmeVars
    /\ UNCHANGED << program, rows, counter, howfairis_variables, error, quota,
                    clock, sleepArg, progress, trace, attempts, overflow,
                    outcomes >>

\* a timeout branch that also reads the quota before its fixed delay
ExceptTimeout_Queries ==
    /\ program = "howfairis" /\ pc = "except"
    /\ Classify(error) = "timeout"
    /\ \E remaining \in Remainings, reset \in ResetTimes, now \in Times :
         /\ quota' = [status |-> "ok", remaining |-> remaining, reset |-> reset]
         /\ clock' = now
    /\ sleepArg' = TimeoutDelay
    /\ trace' = Record(overflow, << RateLimitQuery, Sleep(TimeoutDelay) >>)
    /\ pc' = "try"
    /\ step' = "ExceptTimeout"
    /\ UNCHANGED readmeVars
    /\ UNCHANGED << program, rows, counter, result, howfairis_variables, error,
                    progress, attempts, overflow, outcomes >>

\* except block, "TimeoutError" in the message: sleep 5 seconds, loop again
ExceptTimeout ==
    /\ program = "howfairis" /\ pc = "except"
    /\ Classify(error) = "timeout"
    /\ sleepArg' = TimeoutDelay
    /\ trace' = Record(overflow, << Sleep(TimeoutDelay) >>)
    /\ pc' = "try"
    /\ step' = "ExceptTimeout"
    /\ UNCHANGED readmeVars
    /\ UNCHANGED << program, rows, counter, result, howfairis_variables, error,
                    quota, clock, progress, attempts, overflow, outcomes >>

\* except block, any other message: the rate-limit endpoint answers, then
\* time.sleep(reset - now + 2); a negative argument makes time.sleep raise
\* ValueError inside the handler, which leaves parse_repo and the batch loop
ExceptRateLimit ==
    /\ program = "howfairis" /\ pc = "except"
    /\ Classify(error) = "rate_limit"
    /\ \E remaining \in Remainings, reset \in ResetTimes, now \in Times :
         LET sleep_time == reset - now IN
         /\ quota' = [status |-> "ok", remaining |-> remaining, reset |-> reset]
         /\ clock' = now
         /\ sleepArg' = sleep_time + RateLimitMargin
         /\ IF sleep_time + RateLimitMargin < 0
            THEN /\ pc' = "crashed"
                 /\ trace' = Record(overflow, << RateLimitQuery >>)
            ELSE /\ pc' = "try"
                 /\ trace' = Record(overflow,
                        << RateLimitQuery, Sleep(sleep_time + RateLimitMargin) >>)
    /\ step' = "ExceptRateLimit"
    /\ UNCHANGED readmeVars
    /\ UNCHANGED << program, rows, counter, result, howfairis_variables, error,
                    progress, attempts, overflow, outcomes >>

\* except block, any other message: api.rate_limit.get() itself raises; the
\* exception is raised inside the handler and leaves parse_repo and the loop
ExceptRateLimitFails ==
    /\ program = "howfairis" /\ pc = "except"
    /\ Classify(error) = "rate_limit"
    /\ quota' = [status |-> "failed", remaining |-> 0, reset |-> 0]
    /\ trace' = Record(overflow, << RateLimitQuery >>)
    /\ pc' = "crashed"
    /\ step' = "ExceptRateLimitFails"
    /\ UNCHANGED readmeVars
    /\ UNCHANGED << program, rows, counter, result, howfairis_variables, error,
                    clock, sleepArg, progress, attempts, overflow, outcomes >>

\* the append done for every row, skipped ones included
AppendResult_Always(list, r) == Append(list, r)

\* howfairis_variables.append(result) when result is not None
AppendResult(list, r) == IF r # None THEN Append(list, r) ELSE list

ProgressEvery == 10

\* a progress test on the one-based number of the row
ProgressDue_OneBased(c) == (c + 1) % ProgressEvery = 0

\* __main__, line 144: the progress test on the zero-based counter
ProgressDue(c) == c % ProgressEvery = 0

\* body of the __main__ loop after parse_repo has returned
LoopBody ==
    /\ program = "howfairis" /\ pc = "body"
    /\ howfairis_variables' = AppendResult(howfairis_variables, result)
    /\ progress' = IF ProgressDue(counter)
                   THEN Append(progress, << counter, Len(rows) >>)
                   ELSE progress
    /\ outcomes' = Append(outcomes, result)
    /\ counter' = counter + 1
    /\ pc' = "for"
    /\ RowDone
    /\ step' = "LoopBody"
    /\ UNCHANGED readmeVars
    /\ UNCHANGED << program, rows, result >>

\* the __main__ loop has consumed every row
LoopEnd ==
    /\ program = "howfairis" /\ pc = "for"
    /\ counter = Len(rows)
    /\ pc' = "done"
    /\ step' = "LoopEnd"
    /\ UNCHANGED readmeVars
    /\ UNCHANGED << program, rows, counter, result, howfairis_variables, error,
                    quota, clock, sleepArg, progress, trace, attempts, overflow,
                    outcomes >>

\* ------------------------------------------------------------------------
\* readme_content.py: address parsing
\* ------------------------------------------------------------------------
is_github_url(url) == StartsWith(url, S_https \o S_github_com)

\* percent-escapes that occur in the inputs: %2F is "/", %61 is "a"
HexPairs == << <<"2","F">>, <<"6","1">> >>
HexChars == << "/", "a" >>

\* urllib.parse.unquote: every valid %XX escape becomes its character, any
\* other "%" stays as it is
RECURSIVE unquote(_)
unquote(s) ==
    IF s = <<>> THEN <<>>
    ELSE IF /\ s[1] = "%" /\ Len(s) >= 3
            /\ \E k \in 1..Len(HexPairs) : HexPairs[k] = << s[2], s[3] >>
         THEN LET k == CHOOSE k \in 1..Len(HexPairs) :
                           HexPairs[k] = << s[2], s[3] >> IN
              << HexChars[k] >> \o unquote(SubSeq(s, 4, Len(s)))
         ELSE << s[1] >> \o unquote(Tail(s))

\* index of the first element of s that is in set cs, Len(s) + 1 if none
RECURSIVE FirstOf(_, _)
FirstOf(s, cs) ==
    IF s = <<>> THEN 1
    ELSE IF s[1] \in cs THEN 1
    ELSE 1 + FirstOf(Tail(s), cs)

SchemeChars ==
    { "a","b","c","d","e","f","g","h","i","j","k","l","m","n","o","p","q",
      "r","s","t","u","v","w","x","y","z","F","2","6","1","+","-","." }

\* urllib.parse.urlparse: [scheme ":"] ["//" netloc] path ["?" query] ["#" frag]
urlparse(url) ==
    LET colon == FirstOf(url, {":"})
        hasScheme == /\ colon > 1 /\ colon <= Len(url)
                     /\ \A i \in 1..(colon - 1) : url[i] \in SchemeChars
        rest == IF hasScheme THEN SubSeq(url, colon + 1, Len(url)) ELSE url
        hasNetloc == StartsWith(rest, <<"/","/">>)
        afterSlashes == IF hasNetloc THEN SubSeq(rest, 3, Len(rest)) ELSE rest
        netlocEnd == IF hasNetloc THEN FirstOf(afterSlashes, {"/","?","#"}) ELSE 1
        tail == SubSeq(afterSlashes, netlocEnd, Len(afterSlashes))
        pathEnd == FirstOf(tail, {"?","#"})
    IN [ scheme |-> IF hasScheme THEN SubSeq(url, 1, colon - 1) ELSE <<>>,
         netloc |-> SubSeq(afterSlashes, 1, netlocEnd - 1),
         path |-> SubSeq(tail, 1, pathEnd - 1) ]

\* s.strip('/')
RECURSIVE strip(_)
strip(s) ==
    IF s = <<>> THEN <<>>
    ELSE IF s[1] = "/" THEN strip(Tail(s))
    ELSE IF s[Len(s)] = "/" THEN strip(SubSeq(s, 1, Len(s) - 1))
    ELSE s

\* s.split('/'): one part more than there are separators, empty parts kept
RECURSIVE split(_)
split(s) ==
    LET cut == FirstOf(s, {"/"}) IN
    IF cut > Len(s) THEN << s >>
    ELSE << SubSeq(s, 1, cut - 1) >> \o split(SubSeq(s, cut + 1, Len(s)))

\* get_readme_content up to the call of get_content_from_github:
\* << owner, repo >>, or None for a URL it rejects
address(github_url) ==
    IF ~is_github_url(github_url) THEN None
    ELSE LET parsed_url == urlparse(unquote(github_url))
             path_parts == split(strip(parsed_url.path))
         IN IF Len(path_parts) < 2 THEN None
            ELSE << path_parts[1], path_parts[2] >>

\* ------------------------------------------------------------------------
\* readme_content.py: text helpers
\* ------------------------------------------------------------------------
UpperCase == << "A","B","C","D","E","F","G","H","I","J","K","L","M",
                "N","O","P","Q","R","S","T","U","V","W","X","Y","Z" >>
LowerCase == << "a","b","c","d","e","f","g","h","i","j","k","l","m",
                "n","o","p","q","r","s","t","u","v","w","x","y","z" >>

\* the name compared without lowering it
lower_Identity(s) == s

\* s.lower()
lower(s) ==
    [ i \in 1..Len(s) |->
        IF \E k \in 1..26 : UpperCase[k] = s[i]
        THEN LowerCase[CHOOSE k \in 1..26 : UpperCase[k] = s[i]]
        ELSE s[i] ]

\* s.replace(old, new) for one-character old and new
replace(s, old, new) == [ i \in 1..Len(s) |-> IF s[i] = old THEN new ELSE s[i] ]

S_readme == <<"r","e","a","d","m","e">>
S_README_start == <<"R","E","A","D","M","E","_","s","t","a","r","t">>
S_README_end == <<"R","E","A","D","M","E","_","e","n","d">>

B64Alphabet ==
    UpperCase \o LowerCase \o
    << "0","1","2","3","4","5","6","7","8","9","+","/" >>

B64Val(c) == (CHOOSE i \in 1..64 : B64Alphabet[i] = c) - 1

\* the bytes of one group of four base64 characters
B64Group(q) ==
    LET pad == IF q[3] = "=" THEN 2 ELSE IF q[4] = "=" THEN 1 ELSE 0
        v(i) == IF q[i] = "=" THEN 0 ELSE B64Val(q[i])
        n == v(1) * 262144 + v(2) * 4096 + v(3) * 64 + v(4)
        bytes == << n \div 65536, (n \div 256) % 256, n % 256 >>
    IN SubSeq(bytes, 1, 3 - pad)

\* base64.b64decode of text whose length is a multiple of four
RECURSIVE b64decode(_)
b64decode(s) ==
    IF s = <<>> THEN <<>>
    ELSE B64Group(SubSeq(s, 1, 4)) \o b64decode(SubSeq(s, 5, Len(s)))

\* bytes.decode('utf-8') raises UnicodeDecodeError on a byte that no UTF-8
\* sequence contains (0xF8..0xFF)
Utf8Fails(bytes) == \E i \in 1..Len(bytes) : bytes[i] >= 248

Chr(b) ==
    CASE b = 10 -> "\n"
      [] b = 32 -> " "
      [] b = 44 -> ","
      [] b = 59 -> ";"
      [] b = 120 -> "x"

\* bytes.decode('utf-8') of ASCII bytes
utf8decode(bytes) == [ i \in 1..Len(bytes) |-> Chr(bytes[i]) ]

\* a value is true in a Python condition
Truthy(v) == v # None /\ v # <<>>

\* the wrapping with only the comma replaced
wrap_KeepSemicolon(readme_content) ==
    S_README_start \o <<"\n">>
      \o replace(readme_content, ",", " ")
      \o <<"\n">> \o S_README_end

\* lines 149-150 of get_readme_content
wrap(readme_content) ==
    S_README_start \o <<"\n">>
      \o replace(replace(readme_content, ",", " "), ";", " ")
      \o <<"\n">> \o S_README_end

\* ------------------------------------------------------------------------
\* readme_content.py: what GitHub can answer
\* ------------------------------------------------------------------------
MaxEntries == 2

N_README_md == <<"R","E","A","D","M","E",".","m","d">>
N_readme_md == <<"r","e","a","d","m","e",".","m","d">>
N_LICENSE == <<"L","I","C","E","N","S","E">>

\* inline bodies: "", "x", "x," and the single byte 0xFF, base64-encoded
InlineBodies == { <<>>, <<"e","A","=","=">>, <<"e","C","w","=">>,
                  <<"/","w","=","=">> }
U_raw == <<"r","a","w">>

\* README entries with every kind of body, and one entry of another name
Entries ==
    { [name |-> n, has_content |-> TRUE, content |-> b, download_url |-> U_raw] :
        n \in { N_README_md, N_readme_md }, b \in InlineBodies }
    \cup
    { [name |-> n, has_content |-> FALSE, content |-> <<>>, download_url |-> u] :
        n \in { N_README_md, N_readme_md }, u \in { U_raw, None } }
    \cup
    { [name |-> N_LICENSE, has_content |-> FALSE, content |-> <<>>,
       download_url |-> U_raw] }

Listings == UNION { [1..n -> Entries] : n \in 0..MaxEntries }

\* response.text of the download
DownloadTexts == { <<>>, <<"x">>, <<"x",";">> }

Listing == [op |-> "listing", secs |-> 0, msg |-> <<>>]
Download == [op |-> "download", secs |-> 0, msg |-> <<>>]

DefaultCooldown == 20 * 60
CheckMargin == 1

\* ------------------------------------------------------------------------
\* readme_content.py: rate limit helpers
\* ------------------------------------------------------------------------
\* check_rate_limit with the subtraction the other way round
check_rate_limit_sleeps_Reversed(remaining, reset_time, now) ==
    IF remaining = 0
    THEN << Max(0, now - reset_time) + CheckMargin >>
    ELSE <<>>

\* check_rate_limit without the max(0, ...) around the waiting time
check_rate_limit_sleeps_NoMax(remaining, reset_time, now) ==
    IF remaining = 0
    THEN << reset_time - now + CheckMargin >>
    ELSE <<>>

\* the sleeps of check_rate_limit once the endpoint has answered
check_rate_limit_sleeps(remaining, reset_time, now) ==
    IF remaining = 0
    THEN << Max(0, reset_time - now) + CheckMargin >>
    ELSE <<>>

\* bool(response) of a requests.Response is response.ok: status below 400
ResponseTrue(response) == response.present /\ response.status < 400

\* the sleeps of handle_rate_limit(response)
handle_rate_limit_sleeps(response, now) ==
    IF ResponseTrue(response)
    THEN IF response.remaining = 0
         THEN << Max(0, response.reset - now) + CheckMargin >>
         ELSE <<>>
    ELSE << DefaultCooldown >>

SleepEvents(ds) == [ i \in 1..Len(ds) |-> Sleep(ds[i]) ]
LastOr(ds, d) == IF ds = <<>> THEN d ELSE ds[Len(ds)]

\* ------------------------------------------------------------------------
\* readme_content.py: process_csv_file and get_readme_content
\* ------------------------------------------------------------------------
\* process_csv_file, lines 186-188: not a GitHub URL
ReadmeSkipNonGithub ==
    /\ program = "readme" /\ pc = "for"
    /\ counter < Len(rows)
    /\ ~is_github_url(rows[counter + 1])
    /\ result' = None
    /\ UNCHANGED << trace, attempts, overflow, error, quota, clock, sleepArg >>
    /\ pc' = "write"
    /\ step' = "ReadmeSkipNonGithub"
    /\ UNCHANGED << program, rows, counter, howfairis_variables, progress,
                    outcomes, readmeVars >>

\* get_readme_content, lines 131-135: fewer than two path parts
ReadmeInvalidFormat ==
    /\ program = "readme" /\ pc = "for"
    /\ counter < Len(rows)
    /\ is_github_url(rows[counter + 1])
    /\ address(rows[counter + 1]) = None
    /\ result' = None
    /\ UNCHANGED << trace, attempts, overflow, error, quota, clock, sleepArg >>
    /\ pc' = "write"
    /\ step' = "ReadmeInvalidFormat"
    /\ UNCHANGED << program, rows, counter, howfairis_variables, progress,
                    outcomes, readmeVars >>

\* get_readme_content, lines 137-140: owner and repo are known
ReadmeEnter ==
    /\ program = "readme" /\ pc = "for"
    /\ counter < Len(rows)
    /\ is_github_url(rows[counter + 1])
    /\ address(rows[counter + 1]) # None
    /\ addr' = address(rows[counter + 1])
    /\ UNCHANGED << trace, attempts, overflow, error, quota, clock, sleepArg >>
    /\ pc' = "check_rate_limit"
    /\ step' = "ReadmeEnter"
    /\ UNCHANGED << program, rows, counter, result, howfairis_variables,
                    progress, outcomes, contents, idx, readme >>

\* check_rate_limit, the endpoint answers
CheckRateLimit ==
    /\ program = "readme" /\ pc = "check_rate_limit"
    /\ \E remaining \in Remainings, reset \in ResetTimes, now \in Times :
         LET ds == check_rate_limit_sleeps(remaining, reset, now) IN
         /\ quota' = [status |-> "ok", remaining |-> remaining, reset |-> reset]
         /\ clock' = now
         /\ sleepArg' = LastOr(ds, sleepArg)
         /\ trace' = Record(overflow, << RateLimitQuery >> \o SleepEvents(ds))
    /\ pc' = "get_content"
    /\ step' = "CheckRateLimit"
    /\ UNCHANGED << program, rows, counter, result, howfairis_variables, error,
                    progress, attempts, overflow, outcomes, readmeVars >>

\* check_rate_limit, the query raises: sleep 20 minutes
CheckRateLimitFails ==
    /\ program = "readme" /\ pc = "check_rate_limit"
    /\ quota' = [status |-> "failed", remaining |-> 0, reset |-> 0]
    /\ sleepArg' = DefaultCooldown
    /\ trace' = Record(overflow, << RateLimitQuery, Sleep(DefaultCooldown) >>)
    /\ pc' = "get_content"
    /\ step' = "CheckRateLimitFails"
    /\ UNCHANGED << program, rows, counter, result, howfairis_variables, error,
                    clock, progress, attempts, overflow, outcomes, readmeVars >>

\* get_content_from_github, the listing is returned
GetContentOk ==
    /\ program = "readme" /\ pc = "get_content"
    /\ \E listing \in Listings : contents' = listing
    /\ idx' = 1
    /\ attempts' = attempts + 1
    /\ trace' = Record(overflow, << Listing >>)
    /\ pc' = "scan"
    /\ step' = "GetContentOk"
    /\ UNCHANGED << program, rows, counter, result, howfairis_variables, error,
                    quota, clock, sleepArg, progress, overflow, outcomes, addr,
                    readme >>

\* get_content_from_github, HTTPError with status 403: handle_rate_limit,
\* then return None
GetContent403 ==
    /\ program = "readme" /\ pc = "get_content"
    /\ \E remaining \in Remainings, reset \in ResetTimes, now \in Times :
         LET response == [present |-> TRUE, status |-> 403,
                          remaining |-> remaining, reset |-> reset]
             ds == handle_rate_limit_sleeps(response, now)
         IN /\ quota' = [status |-> "headers", remaining |-> remaining,
                          reset |-> reset]
            /\ clock' = now
            /\ sleepArg' = LastOr(ds, sleepArg)
            /\ trace' = Record(overflow, << Listing >> \o SleepEvents(ds))
    /\ error' = << "HTTPError", "403" >>
    /\ attempts' = attempts + 1
    /\ result' = None
    /\ pc' = "write"
    /\ step' = "GetContent403"
    /\ UNCHANGED << program, rows, counter, howfairis_variables, progress,
                    overflow, outcomes, readmeVars >>

\* get_content_from_github, HTTPError with another status: return None
GetContentHttpError ==
    /\ program = "readme" /\ pc = "get_content"
    /\ error' = << "HTTPError", "404" >>
    /\ attempts' = attempts + 1
    /\ trace' = Record(overflow, << Listing >>)
    /\ result' = None
    /\ pc' = "write"
    /\ step' = "GetContentHttpError"
    /\ UNCHANGED << program, rows, counter, howfairis_variables, quota, clock,
                    sleepArg, progress, overflow, outcomes, readmeVars >>

\* get_content_from_github, Timeout: return None
GetContentTimeout ==
    /\ program = "readme" /\ pc = "get_content"
    /\ error' = << "Timeout" >>
    /\ attempts' = attempts + 1
    /\ trace' = Record(overflow, << Listing >>)
    /\ result' = None
    /\ pc' = "write"
    /\ step' = "GetContentTimeout"
    /\ UNCHANGED << program, rows, counter, howfairis_variables, quota, clock,
                    sleepArg, progress, overflow, outcomes, readmeVars >>

\* get_content_from_github, an exception that is neither HTTPError nor
\* Timeout (ConnectionError): no except clause catches it, nor does any caller
GetContentOtherError ==
    /\ program = "readme" /\ pc = "get_content"
    /\ error' = << "ConnectionError" >>
    /\ attempts' = attempts + 1
    /\ trace' = Record(overflow, << Listing >>)
    /\ pc' = "crashed"
    /\ step' = "GetContentOtherError"
    /\ UNCHANGED << program, rows, counter, result, howfairis_variables, quota,
                    clock, sleepArg, progress, overflow, outcomes, readmeVars >>

\* lines 147-150 and the loop of line 144: a true readme_content is wrapped
\* and returned, anything else moves the scan to the next entry
AfterDownload(readme_content) ==
    IF Truthy(readme_content)
    THEN /\ result' = wrap(readme_content)
         /\ pc' = "write"
         /\ idx' = idx
    ELSE /\ result' = result
         /\ pc' = "scan"
         /\ idx' = idx + 1

\* the entry's name does not begin with "readme"
ScanOtherName ==
    /\ program = "readme" /\ pc = "scan"
    /\ idx <= Len(contents)
    /\ ~StartsWith(lower(contents[idx].name), S_readme)
    /\ idx' = idx + 1
    /\ step' = "ScanOtherName"
    /\ UNCHANGED << program, rows, counter, pc, result, howfairis_variables,
                    error, quota, clock, sleepArg, progress, trace, attempts,
                    overflow, outcomes, addr, contents, readme >>

\* download_readme_content, inline content, decoded
ScanInline ==
    /\ program = "readme" /\ pc = "scan"
    /\ idx <= Len(contents)
    /\ StartsWith(lower(contents[idx].name), S_readme)
    /\ contents[idx].has_content
    /\ ~Utf8Fails(b64decode(contents[idx].content))
    /\ AfterDownload(utf8decode(b64decode(contents[idx].content)))
    /\ step' = "ScanInline"
    /\ UNCHANGED << program, rows, counter, howfairis_variables, error, quota,
                    clock, sleepArg, progress, trace, attempts, overflow,
                    outcomes, addr, contents, readme >>

\* download_readme_content, inline content that is not UTF-8:
\* UnicodeDecodeError leaves get_readme_content and process_csv_file
ScanInlineDecodeError ==
    /\ program = "readme" /\ pc = "scan"
    /\ idx <= Len(contents)
    /\ StartsWith(lower(contents[idx].name), S_readme)
    /\ contents[idx].has_content
    /\ Utf8Fails(b64decode(contents[idx].content))
    /\ error' = << "UnicodeDecodeError" >>
    /\ pc' = "crashed"
    /\ step' = "ScanInlineDecodeError"
    /\ UNCHANGED << program, rows, counter, result, howfairis_variables, quota,
                    clock, sleepArg, progress, trace, attempts, overflow,
                    outcomes, readmeVars >>

\* download_readme_content, download link, the request succeeds
ScanDownloadOk ==
    /\ program = "readme" /\ pc = "scan"
    /\ idx <= Len(contents)
    /\ StartsWith(lower(contents[idx].name), S_readme)
    /\ ~contents[idx].has_content
    /\ Truthy(contents[idx].download_url)
    /\ \E text \in DownloadTexts : AfterDownload(text)
    /\ trace' = Record(overflow, << Download >>)
    /\ step' = "ScanDownloadOk"
    /\ UNCHANGED << program, rows, counter, howfairis_variables, error, quota,
                    clock, sleepArg, progress, attempts, overflow, outcomes,
                    addr, contents, readme >>

\* download_readme_content, download link, Timeout: None
ScanDownloadTimeout ==
    /\ program = "readme" /\ pc = "scan"
    /\ idx <= Len(contents)
    /\ StartsWith(lower(contents[idx].name), S_readme)
    /\ ~contents[idx].has_content
    /\ Truthy(contents[idx].download_url)
    /\ AfterDownload(None)
    /\ error' = << "Timeout" >>
    /\ trace' = Record(overflow, << Download >>)
    /\ step' = "ScanDownloadTimeout"
    /\ UNCHANGED << program, rows, counter, howfairis_variables, quota, clock,
                    sleepArg, progress, attempts, overflow, outcomes, addr,
                    contents, readme >>

\* download_readme_content, download link, raise_for_status raises HTTPError:
\* only Timeout is caught, the error leaves process_csv_file
ScanDownloadHttpError ==
    /\ program = "readme" /\ pc = "scan"
    /\ idx <= Len(contents)
    /\ StartsWith(lower(contents[idx].name), S_readme)
    /\ ~contents[idx].has_content
    /\ Truthy(contents[idx].download_url)
    /\ error' = << "HTTPError", "404" >>
    /\ trace' = Record(overflow, << Download >>)
    /\ pc' = "crashed"
    /\ step' = "ScanDownloadHttpError"
    /\ UNCHANGED << program, rows, counter, result, howfairis_variables, quota,
                    clock, sleepArg, progress, attempts, overflow, outcomes,
                    readmeVars >>

\* download_readme_content, neither inline content nor a link: None
ScanNoBody ==
    /\ program = "readme" /\ pc = "scan"
    /\ idx <= Len(contents)
    /\ StartsWith(lower(contents[idx].name), S_readme)
    /\ ~contents[idx].has_content
    /\ ~Truthy(contents[idx].download_url)
    /\ AfterDownload(None)
    /\ step' = "ScanNoBody"
    /\ UNCHANGED << program, rows, counter, howfairis_variables, error, quota,
                    clock, sleepArg, progress, trace, attempts, overflow,
                    outcomes, addr, contents, readme >>

\* get_readme_content, line 152: no entry gave a README
ScanEnd ==
    /\ program = "readme" /\ pc = "scan"
    /\ idx > Len(contents)
    /\ result' = None
    /\ pc' = "write"
    /\ step' = "ScanEnd"
    /\ UNCHANGED << program, rows, counter, howfairis_variables, error, quota,
                    clock, sleepArg, progress, trace, attempts, overflow,
                    outcomes, readmeVars >>

\* the readme cell written for a row
Cell(readme_content) == IF Truthy(readme_content) THEN readme_content ELSE None

\* a loop that keeps only the rows with a README
ReadmeWrite_DropsEmpty ==
    /\ program = "readme" /\ pc = "write"
    /\ readme' = IF Truthy(result) THEN Append(readme, result) ELSE readme
    /\ outcomes' = Append(outcomes, result)
    /\ counter' = counter + 1
    /\ pc' = "for"
    /\ RowDone
    /\ addr' = None /\ contents' = <<>> /\ idx' = 0
    /\ step' = "ReadmeWrite"
    /\ UNCHANGED << program, rows, result, howfairis_variables, progress >>

\* process_csv_file, lines 182-188: the readme cell of the row is written
ReadmeWrite ==
    /\ program = "readme" /\ pc = "write"
    /\ readme' = Append(readme, Cell(result))
    /\ outcomes' = Append(outcomes, result)
    /\ counter' = counter + 1
    /\ pc' = "for"
    /\ RowDone
    /\ addr' = None /\ contents' = <<>> /\ idx' = 0
    /\ step' = "ReadmeWrite"
    /\ UNCHANGED << program, rows, result, howfairis_variables, progress >>

\* process_csv_file has consumed every row
ReadmeEnd ==
    /\ program = "readme" /\ pc = "for"
    /\ counter = Len(rows)
    /\ pc' = "done"
    /\ step' = "ReadmeEnd"
    /\ UNCHANGED << program, rows, counter, result, howfairis_variables, error,
                    quota, clock, sleepArg, progress, trace, attempts, overflow,
                    outcomes, readmeVars >>

Next ==
    \/ ParseRepoUnsupported
    \/ ParseRepoEnter
    \/ TrySuccess
    \/ TryRaise
    \/ ExceptSkip
    \/ ExceptTimeout
    \/ ExceptRateLimit
    \/ ExceptRateLimitFails
    \/ LoopBody
    \/ LoopEnd
    \/ ReadmeSkipNonGithub
    \/ ReadmeInvalidFormat
    \/ ReadmeEnter
    \/ CheckRateLimit
    \/ CheckRateLimitFails
    \/ GetContentOk
    \/ GetContent403
    \/ GetContentHttpError
    \/ GetContentTimeout
    \/ GetContentOtherError
    \/ ScanOtherName
    \/ ScanInline
    \/ ScanInlineDecodeError
    \/ ScanDownloadOk
    \/ ScanDownloadTimeout
    \/ ScanDownloadHttpError
    \/ ScanNoBody
    \/ ScanEnd
    \/ ReadmeWrite
    \/ ReadmeEnd

Spec == Init /\ [][Next]_vars

\* the compliance script alone; the interpreter always takes the next step
\* of a running script
InitHowfairis == Init /\ program = "howfairis"

NextHowfairis ==
    \/ ParseRepoUnsupported
    \/ ParseRepoEnter
    \/ TrySuccess
    \/ TryRaise
    \/ ExceptSkip
    \/ ExceptTimeout
    \/ ExceptRateLimit
    \/ ExceptRateLimitFails
    \/ LoopBody
    \/ LoopEnd

FairSpec == InitHowfairis /\ [][NextHowfairis]_vars /\ WF_vars(NextHowfairis)

\* the compliance batch over an input long enough for a second progress
\* message: rows 1, 11, ... are drawn from RowUrls, the others are rows
\* parse_repo skips
ProgressRows == 11

ProgressRowSeqs ==
    { [ i \in 1..ProgressRows |->
          IF i % ProgressEvery = 1 THEN (IF i = 1 THEN a ELSE b)
          ELSE U_example_a_b ] : a \in RowUrls, b \in RowUrls }

InitProgress ==
    /\ program = "howfairis"
    /\ rows \in ProgressRowSeqs
    /\ counter = 0
    /\ pc = "for"
    /\ result = None
    /\ howfairis_variables = <<>>
    /\ error = <<>>
    /\ quota = NoQuota
    /\ clock = 0
    /\ sleepArg = 0
    /\ progress = <<>>
    /\ trace = <<>>
    /\ attempts = 0
    /\ overflow = FALSE
    /\ outcomes = <<>>
    /\ step = "Init"
    /\ addr = None
    /\ contents = <<>>
    /\ idx = 0
    /\ readme = <<>>

SpecProgress == InitProgress /\ [][NextHowfairis]_vars

\* ------------------------------------------------------------------------
\* Address parsing on its own: one URL, handed to both acceptance paths
\* ------------------------------------------------------------------------
MaxPathPieces == 4

UrlSchemes == { S_https, S_http }
UrlHosts == { S_github_com, S_gitlab_com, S_example_org,
              S_github_com \o <<".","o","r","g">> }
PathPieces == { <<"/">>, <<"a">>, <<"b">>, <<"%","2","F">>, S_github_com }
UrlPaths == { Concat(ps) : ps \in UNION { [1..n -> PathPieces] : n \in 0..MaxPathPieces } }
ParseUrls == { sc \o h \o p : sc \in UrlSchemes, h \in UrlHosts, p \in UrlPaths }

InitParse ==
    /\ program = "parse"
    /\ rows \in { << u >> : u \in ParseUrls }
    /\ counter = 0
    /\ pc = "url"
    /\ result = None
    /\ howfairis_variables = <<>>
    /\ error = <<>>
    /\ quota = NoQuota
    /\ clock = 0
    /\ sleepArg = 0
    /\ progress = <<>>
    /\ trace = <<>>
    /\ attempts = 0
    /\ overflow = FALSE
    /\ outcomes = <<>>
    /\ step = "Init"
    /\ addr = None
    /\ contents = <<>>
    /\ idx = 0
    /\ readme = <<>>

\* the URL goes through is_github_url and the parsing of get_readme_content
ParseReadmeUrl ==
    /\ program = "parse" /\ pc = "url"
    /\ result' = address(rows[1])
    /\ pc' = "readme_address"
    /\ step' = "ParseReadmeUrl"
    /\ UNCHANGED readmeVars
    /\ UNCHANGED << program, rows, counter, howfairis_variables, error, quota,
                    clock, sleepArg, progress, trace, attempts, overflow,
                    outcomes >>

\* the URL goes through is_supported_repo of parse_repo; an accepted URL is
\* handed whole to get_howfairis_compliance
ParseSupportedUrl ==
    /\ program = "parse" /\ pc = "url"
    /\ result' = IF is_supported_repo(rows[1]) THEN rows[1] ELSE None
    /\ pc' = "supported"
    /\ step' = "ParseSupportedUrl"
    /\ UNCHANGED readmeVars
    /\ UNCHANGED << program, rows, counter, howfairis_variables, error, quota,
                    clock, sleepArg, progress, trace, attempts, overflow,
                    outcomes >>

NextParse ==
    \/ ParseReadmeUrl
    \/ ParseSupportedUrl

SpecParse == InitParse /\ [][NextParse]_vars

\* ------------------------------------------------------------------------
\* The rate limit helpers on their own: one quota reading, the same helper
\* called repeatedly at times the clock gives
\* ------------------------------------------------------------------------
MaxTime == 6
MaxCalls == 2

\* the response handed to handle_rate_limit: none, or one with a status
Responses(remaining, reset) ==
    { [present |-> p, status |-> st, remaining |-> remaining, reset |-> reset] :
        p \in BOOLEAN, st \in { 200, 403 } }

InitLimiter ==
    /\ program = "limiter"
    /\ pc \in { "check_rate_limit", "handle_rate_limit" }
    /\ \E remaining \in Remainings, reset \in 0..MaxTime :
         /\ quota = [status |-> "ok", remaining |-> remaining, reset |-> reset]
         /\ result \in Responses(remaining, reset)
    /\ rows = <<>>
    /\ counter = 0
    /\ howfairis_variables = <<>>
    /\ error = <<>>
    /\ clock = 0
    /\ sleepArg = 0
    /\ progress = <<>>
    /\ trace = <<>>
    /\ attempts = 0
    /\ overflow = FALSE
    /\ outcomes = <<>>
    /\ step = "Init"
    /\ addr = None
    /\ contents = <<>>
    /\ idx = 0
    /\ readme = <<>>

\* check_rate_limit is called and the endpoint gives the same reading
LimiterCheck ==
    /\ program = "limiter" /\ pc = "check_rate_limit"
    /\ attempts < MaxCalls
    /\ \E now \in 0..MaxTime :
         LET ds == check_rate_limit_sleeps(quota.remaining, quota.reset, now) IN
         /\ clock' = now
         /\ sleepArg' = LastOr(ds, 0)
         /\ trace' = trace \o << Sleep(LastOr(ds, 0)) >>
    /\ attempts' = attempts + 1
    /\ step' = "LimiterCheck"
    /\ UNCHANGED << program, rows, counter, pc, result, howfairis_variables,
                    error, quota, progress, overflow, outcomes, readmeVars >>

\* handle_rate_limit is called with the same response
LimiterHandle ==
    /\ program = "limiter" /\ pc = "handle_rate_limit"
    /\ attempts < MaxCalls
    /\ \E now \in 0..MaxTime :
         LET ds == handle_rate_limit_sleeps(result, now) IN
         /\ clock' = now
         /\ sleepArg' = LastOr(ds, 0)
         /\ trace' = trace \o << Sleep(LastOr(ds, 0)) >>
    /\ attempts' = attempts + 1
    /\ step' = "LimiterHandle"
    /\ UNCHANGED << program, rows, counter, pc, result, howfairis_variables,
                    error, quota, progress, overflow, outcomes, readmeVars >>

NextLimiter ==
    \/ LimiterCheck
    \/ LimiterHandle

SpecLimiter == InitLimiter /\ [][NextLimiter]_vars

\* ------------------------------------------------------------------------
\* Properties
\* ------------------------------------------------------------------------
IsPrefix(s, t) == Len(s) <= Len(t) /\ SubSeq(t, 1, Len(s)) = s

IsSuccess(r) == r # None

FailedFetches(tr) == { i \in 1..Len(tr) : tr[i].op = "fetch" /\ tr[i].msg # <<>> }

\* every fetch of the current row that failed, failed with a timeout message
OnlyTimeouts(tr) ==
    \A i \in FailedFetches(tr) : Contains(tr[i].msg, <<M_TimeoutError>>)

RECURSIVE Paused(_)
\* total time slept in a trace
Paused(tr) ==
    IF tr = <<>> THEN 0
    ELSE (IF Head(tr).op = "sleep" THEN Head(tr).secs ELSE 0) + Paused(Tail(tr))

\* C1: no row-level error aborts the batch: no exception raised by a fetch,
\* a download or a rate-limit call leaves the batch loop.
C1_NoErrorAbortsBatch == pc # "crashed"

\* C2: every call of parse_repo returns: a row whose fetch keeps failing is
\* given up after a bounded number of attempts and the batch goes on.
C2_ParseRepoReturns == (pc = "try") ~> (pc \in {"body", "crashed", "done"})

\* C3: a failure whose message contains the default-branch phrase makes
\* parse_repo return None at once: no further attempt, no sleep and no
\* rate-limit query follow it.
C3_DefaultBranchSkipsAtOnce ==
    [][ (pc = "except" /\ Contains(error, <<M_DefaultBranch>>))
          => /\ pc' = "body"
             /\ result' = None
             /\ attempts' = attempts
             /\ trace' = trace
             /\ sleepArg' = sleepArg
             /\ quota' = quota ]_vars

C3_Witness ==
    /\ step = "ExceptSkip"
    /\ pc = "body" /\ result = None
    /\ error = << M_TimeoutError, M_DefaultBranch >>
    /\ attempts = 2
    /\ trace[Len(trace)] = Fetch(error)

\* C4: N timeouts followed by a success: parse_repo returns the payload
\* after exactly N+1 attempts, with exactly N sleeps of 5 seconds, one after
\* each failed attempt and before the next one.
C4_TimeoutsThenSuccess ==
    (step = "TrySuccess" /\ ~overflow /\ OnlyTimeouts(trace))
      => LET N == Cardinality(FailedFetches(trace)) IN
         /\ result # None
         /\ attempts = N + 1
         /\ Len(trace) = 2 * N + 2
         /\ \A k \in 1..N :
              /\ trace[2 * k - 1].op = "fetch" /\ trace[2 * k - 1].msg # <<>>
              /\ trace[2 * k] = Sleep(5)
         /\ trace[2 * N + 1] = Fetch(<<>>)
         /\ Cardinality({ i \in 1..Len(trace) : trace[i] = Sleep(5) }) = N

C4_Witness ==
    /\ step = "TrySuccess" /\ ~overflow /\ OnlyTimeouts(trace)
    /\ Cardinality(FailedFetches(trace)) = 2
    /\ attempts = 3

\* C5: a listing request rejected with HTTP 403 is followed, after the wait,
\* by another attempt for the same repository; the row is not given up.
C5_QuotaExhaustionRetries ==
    (step = "GetContent403")
      => (pc \in {"check_rate_limit", "get_content"} /\ result # None)

\* C6: check_rate_limit pauses for zero time when remaining > 0; when
\* remaining = 0 it pauses max(0, reset - now) + 1 seconds, which is
\* strictly positive and at least reset - now.
C6_CheckRateLimitPause ==
    (step = "CheckRateLimit")
      => LET paused == Paused(trace) IN
         /\ quota.remaining > 0 => paused = 0
         /\ quota.remaining = 0 =>
              /\ paused = Max(0, quota.reset - clock) + 1
              /\ paused > 0
              /\ paused >= quota.reset - clock

C6_Witness ==
    /\ step = "CheckRateLimit"
    /\ quota.remaining = 0 /\ quota.reset < clock
    /\ trace = << RateLimitQuery, Sleep(1) >>

\* C7: on a failure that is neither the default-branch signal nor a timeout
\* the requested suspension is the rate limiter's wait: zero when remaining
\* is > 0, otherwise max(0, reset - now) plus 1 or 2 seconds; never negative.
C7_SuspensionIsLimiterWait ==
    (step = "ExceptRateLimit")
      => /\ sleepArg >= 0
         /\ quota.remaining > 0 => sleepArg = 0
         /\ quota.remaining = 0 =>
              sleepArg \in { Max(0, quota.reset - clock) + 1,
                             Max(0, quota.reset - clock) + 2 }

\* C8: when the rate-limit query itself fails, the script sleeps the fixed
\* 20-minute cooldown and goes on; the failure is not propagated.
C8_QueryFailureFallsBack ==
    (quota.status = "failed") => (pc # "crashed" /\ sleepArg = 20 * 60)

\* C9: after any prefix of the rows, the result list is the subsequence, in
\* input order, of the rows processed so far whose fetch succeeded; nothing
\* is recorded for unsupported or skipped rows; the list only grows at its end.
C9_ResultInv ==
    (program = "howfairis")
      => /\ Len(outcomes) = counter
         /\ howfairis_variables = SelectSeq(outcomes, IsSuccess)
         /\ \A i \in 1..Len(outcomes) :
              /\ IsSuccess(outcomes[i]) => outcomes[i][1] = rows[i]
              /\ ~is_supported_repo(rows[i]) => outcomes[i] = None

AllowList == { S_github_com, S_gitlab_com }
IsSegment(part) == part # <<>>
Segments(url) == SelectSeq(split(urlparse(unquote(url)).path), IsSegment)
IsValidAddress(url) ==
    /\ urlparse(unquote(url)).netloc \in AllowList
    /\ Len(Segments(url)) >= 2

\* C10: a URL whose host is on the allow-list and that has two non-empty
\* path segments is accepted, with owner and name its 1st and 2nd non-empty
\* segment after percent-decoding; every other URL is rejected. Both for
\* is_github_url + get_readme_content and for is_supported_repo.
C10_AddressParsing ==
    /\ (pc = "readme_address") =>
          IF IsValidAddress(rows[1])
          THEN result = << Segments(rows[1])[1], Segments(rows[1])[2] >>
          ELSE result = None
    /\ (pc = "supported") =>
          IF IsValidAddress(rows[1]) THEN result = rows[1] ELSE result = None

\* C11: a value returned by get_readme_content that is not None contains no
\* comma and no semicolon.
C11_NoDelimiterInReadme ==
    (program = "readme" /\ pc = "write" /\ result # None)
      => \A i \in 1..Len(result) : result[i] \notin { ",", ";" }

C11_Witness ==
    /\ program = "readme" /\ pc = "write" /\ step = "ScanDownloadOk"
    /\ result = S_README_start \o <<"\n", "x", " ", "\n">> \o S_README_end

\* the listing is one entry named README.md in some letter case whose inline
\* content decodes, and get_readme_content has returned
IsReadmeMd(name) == name \in { N_README_md, N_readme_md }

C12_Case ==
    /\ program = "readme" /\ pc = "write"
    /\ Len(contents) = 1
    /\ IsReadmeMd(contents[1].name)
    /\ contents[1].has_content
    /\ ~Utf8Fails(b64decode(contents[1].content))

C12_Decoded == utf8decode(b64decode(contents[1].content))

Spaced(text) ==
    [ i \in 1..Len(text) |-> IF text[i] \in { ",", ";" } THEN " " ELSE text[i] ]

C13_InvalidRowsSkipBeforeNetwork ==
    (program \in {"howfairis", "readme"} /\ counter < Len(rows) /\ pc # "for"
       /\ ~IsValidAddress(rows[counter + 1]))
      => /\ trace = <<>> /\ ~overflow
         /\ pc \in {"body", "write"} => result = None

\* C14: a row whose fetch succeeded ends with the pacing sleep of 1 second,
\* in both scripts; a row that was skipped does not.
C14_PacingAfterSuccess ==
    (pc \in {"body", "write"} /\ ~overflow)
      => IF result # None
         THEN trace # <<>> /\ trace[Len(trace)] = Sleep(PacingDelay)
         ELSE trace = <<>> \/ trace[Len(trace)] # Sleep(PacingDelay)

\* C15: with remaining = 0 and the reset time fixed, a wait computed at a
\* later time is not longer than the wait computed before, and a wait
\* computed at or after the reset time is not below the margin of 1 second.
C15_WaitNonIncreasing ==
    [][ (program = "limiter" /\ quota.remaining = 0 /\ attempts' = attempts + 1)
          => /\ (attempts >= 1 /\ clock <= clock') => sleepArg' <= sleepArg
             /\ clock' >= quota.reset => sleepArg' >= CheckMargin ]_vars

C15_Witness ==
    /\ program = "limiter" /\ pc = "check_rate_limit"
    /\ quota.remaining = 0
    /\ Len(trace) = 2
    /\ trace[1].secs > trace[2].secs
    /\ clock >= quota.reset
    /\ trace[2].secs = CheckMargin

\* C16: in the README pipeline every download of a README through its
\* download link is preceded by a reading of the quota made for that
\* request, i.e. after the network call before it.
C16_DownloadAfterQuotaRead ==
    (program = "readme" /\ ~overflow)
      => \A i \in 1..Len(trace) :
           trace[i].op = "download"
             => \E j \in 1..(i - 1) :
                  /\ trace[j].op = "rate_limit"
                  /\ \A k \in (j + 1)..(i - 1) :
                       trace[k].op \notin { "listing", "download" }

\* C17: when the listing call fails with status 403 and the response
\* carries remaining = 0 and reset = r, handle_rate_limit sleeps
\* max(0, r - now) + 1 seconds.
C17_ForbiddenWaitsForReset ==
    (program = "readme" /\ step = "GetContent403" /\ quota.status = "headers"
       /\ quota.remaining = 0)
      => sleepArg = Max(0, quota.reset - clock) + CheckMargin

\* C18: after any number of rows of the compliance batch, the progress
\* messages are exactly those of the rows with zero-based index 0, 10, 20,
\* ... among the rows done, each giving that index and the number of input
\* rows, whatever the outcome of the row.
C18_ProgressEveryTenRows ==
    program = "howfairis"
      => /\ Len(progress) = (counter + ProgressEvery - 1) \div ProgressEvery
         /\ \A k \in 1..Len(progress) :
              progress[k] = << ProgressEvery * (k - 1), Len(rows) >>

C18_Witness ==
    /\ program = "howfairis" /\ pc = "done"
    /\ Len(rows) > ProgressEvery
    /\ outcomes[1] # None
    /\ outcomes[ProgressEvery + 1] = None
    /\ progress = << << 0, Len(rows) >>, << ProgressEvery, Len(rows) >> >>

EndsWith(s, suffix) ==
    /\ Len(s) >= Len(suffix)
    /\ SubSeq(s, Len(s) - Len(suffix) + 1, Len(s)) = suffix

IsWrapped(cell) == StartsWith(cell, S_README_start) /\ EndsWith(cell, S_README_end)

\* C19: process_csv_file writes one readme cell per row in input order, so
\* on completion there is one cell per input row; each cell is None or a
\* text between README_start and README_end; a row with a non-GitHub URL
\* or a failed fetch keeps its place with a None cell.
C19_EveryRowKept ==
    program = "readme"
      => /\ pc \in { "for", "done" } => Len(readme) = counter
         /\ pc = "done" => Len(readme) = Len(rows)
         /\ Len(outcomes) = Len(readme)
         /\ \A i \in 1..Len(readme) :
              /\ readme[i] = None \/ IsWrapped(readme[i])
              /\ ~is_github_url(rows[i]) => readme[i] = None
              /\ readme[i] = Cell(outcomes[i])

C19_Witness ==
    /\ program = "readme" /\ pc = "done"
    /\ Len(rows) = 2 /\ Len(readme) = 2
    /\ ~is_github_url(rows[1]) /\ readme[1] = None
    /\ is_github_url(rows[2]) /\ readme[2] # None /\ IsWrapped(readme[2])

\* the step queries the rate-limit endpoint
Queried ==
    /\ ~overflow
    /\ \E i \in (Len(trace) + 1)..Len(trace') : trace'[i].op = "rate_limit"

IsTimeoutFailure ==
    /\ pc = "except"
    /\ Contains(error, <<M_TimeoutError>>)
    /\ ~Contains(error, <<M_DefaultBranch>>)

\* C20: in parse_repo a failure classified as a timeout leaves the quota
\* reading and the time read for it as they were, does not query the
\* rate-limit endpoint and only sleeps 5 seconds before the next attempt;
\* the endpoint is queried only in the except block for a message with
\* neither the default-branch phrase nor TimeoutError.
C20_TimeoutLeavesQuota ==
    [][ program = "howfairis"
          => /\ IsTimeoutFailure
                  => /\ quota' = quota /\ clock' = clock
                     /\ ~Queried
                     /\ sleepArg' = TimeoutDelay
                     /\ pc' = "try"
                     /\ ~overflow => trace' = Append(trace, Sleep(TimeoutDelay))
             /\ (Queried \/ quota' \notin { quota, NoQuota })
                  => /\ pc = "except"
                     /\ ~Contains(error, <<M_TimeoutError>>)
                     /\ ~Contains(error, <<M_DefaultBranch>>) ]_vars

C20_Witness ==
    /\ program = "howfairis" /\ step = "ExceptTimeout" /\ pc = "try"
    /\ error = << M_Other, M_TimeoutError >>
    /\ quota.status = "ok"
    /\ sleepArg = TimeoutDelay
    /\ ~overflow
    /\ Len(trace) >= 4
    /\ trace[Len(trace)] = Sleep(TimeoutDelay)
    /\ trace[Len(trace) - 1].op = "fetch"

====
